---- MODULE Spec2Model ----
(***************************************************************************)
(* A model of src/bin/procstats2.rs: the per-process extractor (get_info),  *)
(* the group aggregator (processes_group_info), the two grouping           *)
(* strategies (ProcessSplitterByUid, ProcessSplitterByEnvVariable), the    *)
(* privileged discovery protocol (get_smon_info and the get_sga probe) and *)
(* the run of main().                                                      *)
(*                                                                         *)
(* The machine the program inspects is drawn in Init: the candidate        *)
(* instances find_smons() yields, the System V segments, the process table *)
(* and the page size.  It is a snapshot: it does not change during a run.  *)
(* Outcomes of calls that the snapshot does not fix (exec of the child,    *)
(* the size query, the kernel frame-flag sources, the enumeration of       *)
(* processes) are drawn where the code makes the call.                     *)
(***************************************************************************)
EXTENDS Integers, Sequences, FiniteSets, TLC

VARIABLES
    args,        \* argv[1] of the top-level invocation: "none" or "get_sga"
    euid,        \* users::get_current_uid() of the top-level invocation
    smons,       \* what snap::find_smons() yields: candidates (pid, uid, sid)
    shm,         \* what procfs::Shm::new() yields: "err" or the segments
    procs,       \* the process table read by procfs::process::all_processes()
    page_size,   \* procfs::page_size()
    pc,          \* position of the top-level invocation in main()
    panic,       \* message of the panic that aborted the top-level invocation
    out,         \* lines the top-level invocation printed in normal mode
    idx,         \* position of the filter_map over find_smons() (1-based)
    smon_info,   \* the Result get_smon_info returned last (main, line 334)
    instances,   \* Vec<SmonInfo> collected so far (main, line 331)
    probe,       \* the process running the get_sga path, or NoProbe
    processes,   \* the Vec<Process> local of main (moved into split)
    splitter,    \* the `splitter` local: the strategy and its groups
    rows1,       \* the per-user report: one row per group of the uid split
    rows2,       \* the per-variable report: one row per group of the env split
    input,       \* the list handed to the last split call of the API runs
    calls        \* number of split calls made on the strategy in the API runs

vars == <<args, euid, smons, shm, procs, page_size, pc, panic, out, idx,
          smon_info, instances, probe, processes, splitter, rows1, rows2,
          input, calls>>

(***************************************************************************)
(* Bounds of the explored inputs.                                          *)
(***************************************************************************)
MaxProcs == 2      \* processes in the process table / in a list given to split
MaxFrame == 1      \* page frame numbers are 0..MaxFrame
MaxSmons == 2      \* candidates find_smons() yields
MaxShm == 2        \* System V segments
MaxCalls == 2      \* split calls on one strategy object in the API runs

Frames == 0..MaxFrame
Uids == {100, 200}                 \* owners of the processes in the table
SmonUids == {0, 500}               \* owners of the candidate instances
SgaSizes == {10, 20}               \* segment sizes, and sizes the query reports
PageSizes == {4096, 1048576}       \* the smallest and the largest base page of Linux
VarName == "ORACLE_SID"            \* main, line 433
None == <<>>                       \* Option::None; Some(x) is <<x>>
Some(x) == <<x>>
SidValues == {None, Some("A")}     \* environ.get("ORACLE_SID") of a process
MyPid == 0                         \* std::process::id() of the run

\* What one lookup on a process does in this snapshot.  "ok": every lookup
\* succeeds; "kernel": the command line is empty; "gone": the memory maps
\* cannot be read; "nouid", "noenv", "nocmd", "nostatus", "nofd": uid(),
\* environ(), cmdline(), status()/vmpte, fd_count() fail.
ProcStates == {"ok", "kernel", "gone", "nouid", "noenv", "nocmd", "nostatus", "nofd"}


(***************************************************************************)
(* Helpers on sets and sequences.                                          *)
(***************************************************************************)
Range(s) == {s[i] : i \in DOMAIN s}

RECURSIVE SeqSum(_)
SeqSum(s) == IF s = <<>> THEN 0 ELSE Head(s) + SeqSum(Tail(s))

RECURSIVE Flatten(_)
Flatten(ss) == IF ss = <<>> THEN <<>> ELSE Head(ss) \o Flatten(Tail(ss))

\* The elements of a set of naturals in ascending order (BTreeMap key order).
RECURSIVE Ascending(_)
Ascending(S) ==
    IF S = {} THEN <<>>
    ELSE LET m == CHOOSE x \in S : \A y \in S : x <= y
         IN  <<m>> \o Ascending(S \ {m})

\* Every ordering of a finite set (the iteration orders a HashMap may have).
Orders(S) == {o \in [1..Cardinality(S) -> S] : Range(o) = S}

(***************************************************************************)
(* Results: Option and Result values, and a panic that unwinds the caller. *)
(***************************************************************************)
Panic(m) == [tag |-> "Panic", msg |-> m]
Err(m) == [tag |-> "Err", msg |-> m]

(***************************************************************************)
(* The per-process extractor.                                              *)
(***************************************************************************)
\* snap::get_memory_maps_for_process: the resident frames and swap slots of
\* the pages of a process, or an error when the process can no longer be read.
get_memory_maps_for_process(p) ==
    IF p.state = "gone" THEN Err("maps")
    ELSE [tag |-> "Ok", pfns |-> p.pfns, swap |-> p.swap]

\* get_info: None for a process without command line, a panic where the code
\* unwraps a failed lookup, else the footprint.  One page-size unit is added
\* to rss for a resident page only when its frame number is not 0; the frame
\* number is inserted into pfns in either case.
get_info(process, memory_maps) ==
    IF process.state = "nocmd" THEN Panic("cmdline")
    ELSE IF process.state = "kernel" THEN [tag |-> "None"]
    ELSE IF process.state = "nostatus" THEN Panic("status")
    ELSE IF process.state = "nofd" THEN Panic("fd_count")
    ELSE [tag |-> "Some",
          info |-> [pid |-> process.pid,
                    pfns |-> memory_maps.pfns,
                    swap_pages |-> memory_maps.swap,
                    rss |-> page_size * Cardinality({f \in memory_maps.pfns : f # 0}),
                    vsz |-> page_size * (Cardinality(memory_maps.pfns)
                                         + Cardinality(memory_maps.swap)),
                    pte |-> process.pte,
                    fds |-> process.fds]]

(***************************************************************************)
(* The group aggregator.                                                   *)
(***************************************************************************)
\* Index of the first panic among the results of an iteration, 0 if none.
FirstPanic(results) ==
    LET panics == {k \in DOMAIN results : results[k].tag = "Panic"}
    IN  IF panics = {} THEN 0 ELSE CHOOSE k \in panics : \A j \in panics : k <= j

\* The first filter_map of processes_group_info: the members whose memory
\* maps can be read.
resolved_members(members) ==
    SelectSeq(members, LAMBDA p : get_memory_maps_for_process(p).tag = "Ok")

\* The second filter_map: get_info of each such member, in order.
info_results(resolved) ==
    [k \in DOMAIN resolved |->
       get_info(resolved[k], get_memory_maps_for_process(resolved[k]))]

\* collect(): the first panic of get_info ends the call; a None is left out.
collect_infos(results) ==
    IF FirstPanic(results) # 0 THEN results[FirstPanic(results)]
    ELSE [tag |-> "Ok",
          infos |-> SelectSeq(results, LAMBDA r : r.tag = "Some")]

processes_info(members) == collect_infos(info_results(resolved_members(members)))

\* Lines 234-254: the fold over processes_info.
fold_infos(r) ==
    IF r.tag = "Panic" THEN r
    ELSE [tag |-> "Ok",
          pids |-> [k \in DOMAIN r.infos |-> r.infos[k].info.pid],
          pfns |-> UNION {r.infos[k].info.pfns : k \in DOMAIN r.infos},
          swap_pages |-> UNION {r.infos[k].info.swap_pages : k \in DOMAIN r.infos},
          pte |-> SeqSum([k \in DOMAIN r.infos |-> r.infos[k].info.pte]),
          fds |-> SeqSum([k \in DOMAIN r.infos |-> r.infos[k].info.fds])]

\* processes_group_info listing the whole membership as pids.
processes_group_info_members(group) ==
    IF processes_info(group.processes).tag = "Panic"
    THEN processes_info(group.processes)
    ELSE [fold_infos(processes_info(group.processes)) EXCEPT
            !.pids = [k \in DOMAIN group.processes |-> group.processes[k].pid]]

processes_group_info(group) == fold_infos(processes_info(group.processes))

(***************************************************************************)
(* The grouping strategies.  A map is a function on its set of keys.       *)
(***************************************************************************)
EmptyMap == <<>>

MapInsert(m, k, v) == [x \in DOMAIN m \cup {k} |-> IF x = k THEN v ELSE m[x]]

\* users::get_user_by_uid(uid).name()
UserName(uid) == IF uid = 100 THEN "oracle" ELSE "grid"

\* impl PartialEq for ProcessGroup
GroupEq(g1, g2) == g1.name = g2.name

\* The loop of ProcessSplitterByUid::split: each uid drains its processes out
\* of the list and its group is inserted into the map the strategy holds.
RECURSIVE ByUid_loop(_, _, _)
ByUid_loop(uids, remaining, groups) ==
    IF uids = <<>> THEN groups
    ELSE LET uid == Head(uids)
             some_processes == SelectSeq(remaining, LAMBDA p : p.uid = uid)
             kept == SelectSeq(remaining, LAMBDA p : p.uid # uid)
             process_group == [name |-> <<"user", UserName(uid)>>,
                               processes |-> some_processes]
         IN  ByUid_loop(Tail(uids), kept, MapInsert(groups, uid, process_group))

ByUid_split(groups, list) ==
    IF \E i \in DOMAIN list : list[i].state = "nouid" THEN Panic("uid")
    ELSE [tag |-> "Ok",
          groups |-> ByUid_loop(Ascending({list[i].uid : i \in DOMAIN list}),
                                list, groups)]

\* The loop of ProcessSplitterByEnvVariable::split, which fills a new map.
RECURSIVE ByEnv_loop(_, _, _)
ByEnv_loop(sids, remaining, groups) ==
    IF sids = <<>> THEN groups
    ELSE LET sid == Head(sids)
             some_processes == SelectSeq(remaining, LAMBDA p : p.sid = sid)
             kept == SelectSeq(remaining, LAMBDA p : p.sid # sid)
             process_group == [name |-> <<VarName, sid>>,
                               processes |-> some_processes]
         IN  ByEnv_loop(Tail(sids), kept, MapInsert(groups, sid, process_group))

\* ByEnv_split making groups for the values of the variable only, so that
\* no group is made for the processes that lack it.
ByEnv_split_present(groups, list) ==
    IF \E i \in DOMAIN list : list[i].state = "noenv" THEN Panic("environ")
    ELSE LET sids == {list[i].sid : i \in DOMAIN list} \ {None}
             order == CHOOSE o \in Orders(sids) : TRUE
         IN  [tag |-> "Ok", groups |-> ByEnv_loop(order, list, EmptyMap)]

ByEnv_split(groups, list) ==
    IF \E i \in DOMAIN list : list[i].state = "noenv" THEN Panic("environ")
    ELSE LET sids == {list[i].sid : i \in DOMAIN list}
             order == CHOOSE o \in Orders(sids) : TRUE
         IN  [tag |-> "Ok", groups |-> ByEnv_loop(order, list, EmptyMap)]

\* split of the strategy a splitter value holds.
split(s, list) ==
    LET r == IF s.kind = "uid" THEN ByUid_split(s.groups, list)
             ELSE ByEnv_split(s.groups, list)
    IN  IF r.tag = "Panic" THEN r
        ELSE [tag |-> "Ok", splitter |-> [kind |-> s.kind, groups |-> r.groups]]

\* The orders in which iter_groups and into_values may visit the groups:
\* key order for the BTreeMap, any order for the HashMap.
GroupOrders(s) ==
    IF s.kind = "uid" THEN {Ascending(DOMAIN s.groups)}
    ELSE Orders(DOMAIN s.groups)

iter_groups(s, order) == [i \in DOMAIN order |-> s.groups[order[i]]]

collect_processes(s, order) ==
    Flatten([i \in DOMAIN order |-> s.groups[order[i]].processes])

(***************************************************************************)
(* The privileged discovery protocol.                                      *)
(***************************************************************************)
\* Standard output of a probe is a sequence of chunks: the line println!
\* writes ("int", with its value), and whatever the size query itself wrote
\* there: text ("text") or bytes that are not UTF-8 ("bin").
IntLine(n) == [kind |-> "int", val |-> n]
Noise(k) == [kind |-> k, val |-> 0]

\* What snap::get_sga_size() can do in the child: fail, or return a size,
\* having written nothing, text or undecodable bytes to standard output.
QueryOutcomes ==
    {[ok |-> FALSE, size |-> 0, noise |-> "none"]}
    \cup {[ok |-> TRUE, size |-> s, noise |-> n] :
            s \in SgaSizes, n \in {"none", "text", "bin"}}

NoProbe ==
    [who |-> "none", uid |-> 0, pc |-> "none", stdout |-> <<>>,
     queried |-> FALSE, sga_size |-> 0]

NewProbe(who, uid) ==
    [who |-> who, uid |-> uid, pc |-> "assert", stdout |-> <<>>,
     queried |-> FALSE, sga_size |-> 0]

\* String::from_utf8(output.stdout)
from_utf8(stdout) == \A i \in DOMAIN stdout : stdout[i].kind # "bin"

\* stdout.trim().parse::<u64>(): the text is one integer and nothing else.
parse(stdout) ==
    IF Len(stdout) = 1 /\ stdout[1].kind = "int"
    THEN [tag |-> "Ok", val |-> stdout[1].val]
    ELSE Err("parse")

\* snap::shm2pfns
shm2pfns(seg) == IF seg.readable THEN [tag |-> "Ok", pfns |-> seg.pfns] ELSE Err("shm2pfns")

\* Lines 290-307: the size is parsed, the first segment of that size is
\* looked for and its frames are resolved.
match_segment(cand, sga_size) ==
    IF sga_size.tag = "Err" THEN Panic("parse")
    ELSE IF ~shm.ok THEN Err("shm")
    ELSE IF \A i \in DOMAIN shm.segs : shm.segs[i].size # sga_size.val
         THEN Panic("shm for sga not found")
    ELSE LET first == CHOOSE i \in DOMAIN shm.segs :
                         /\ shm.segs[i].size = sga_size.val
                         /\ \A j \in 1..(i - 1) : shm.segs[j].size # sga_size.val
         IN  IF shm2pfns(shm.segs[first]).tag = "Err" THEN Panic("shm2pfns")
             ELSE [tag |-> "Ok",
                   info |-> [pid |-> cand.pid,
                             sid |-> cand.sid,
                             sga_size |-> sga_size.val,
                             sga_shm |-> shm.segs[first].shmid,
                             sga_pfns |-> shm2pfns(shm.segs[first]).pfns]]

\* get_smon_info without the test of the exit status of line 279.
get_smon_info_unchecked(cand, child) ==
    IF ~from_utf8(child.stdout) THEN Err("Can't read output")
    ELSE match_segment(cand, parse(child.stdout))

\* get_smon_info from line 279 on: the child has ended with `child.pc`
\* ("exit0" or "aborted") and standard output `child.stdout`.
get_smon_info(cand, child) ==
    IF child.pc # "exit0" THEN Err("Can't get info")
    ELSE IF ~from_utf8(child.stdout) THEN Err("Can't read output")
    ELSE match_segment(cand, parse(child.stdout))

(***************************************************************************)
(* The two reports of main.                                                *)
(***************************************************************************)
\* x * page_size / 1024 / 1024 in u64
MiB(x) == ((x * page_size) \div 1024) \div 1024

\* The inner loop of the per-user report: processes_group_info of every
\* group that differs (by name) from group1, and the union of their frames.
other_infos(others) == [k \in DOMAIN others |-> processes_group_info(others[k])]

union_pfns(infos) ==
    IF FirstPanic(infos) # 0 THEN infos[FirstPanic(infos)]
    ELSE [tag |-> "Ok", pfns |-> UNION {infos[k].pfns : k \in DOMAIN infos}]

\* other_pfns without the comparison of line 414: group1 is among the others.
other_pfns_all(groups, group1) == union_pfns(other_infos(groups))

other_pfns(groups, group1) ==
    union_pfns(other_infos(SelectSeq(groups, LAMBDA group2 : ~GroupEq(group1, group2))))

\* Lines 420-426: the line printed for group1.
user_line(group1, others, group1_info) ==
    IF others.tag = "Panic" THEN others
    ELSE IF group1_info.tag = "Panic" THEN group1_info
    ELSE [tag |-> "Ok",
          row |-> [name |-> group1.name,
                   pfns |-> Cardinality(group1_info.pfns),
                   rss |-> MiB(Cardinality(group1_info.pfns)),
                   uss |-> MiB(Cardinality(group1_info.pfns \ others.pfns)),
                   info |-> group1_info]]

\* One iteration of the outer loop of the per-user report.
user_row(groups, group1) ==
    user_line(group1, other_pfns(groups, group1), processes_group_info(group1))

\* Lines 437-442: the line printed for a group of the per-variable report.
env_line(group, group_info) ==
    IF group_info.tag = "Panic" THEN group_info
    ELSE [tag |-> "Ok",
          row |-> [name |-> group.name,
                   pfns |-> Cardinality(group_info.pfns),
                   rss |-> MiB(Cardinality(group_info.pfns)),
                   info |-> group_info]]

env_row(group) == env_line(group, processes_group_info(group))

\* The lines of a loop that were printed: those before the first panic.
printed_rows(results) ==
    IF FirstPanic(results) = 0
    THEN [tag |-> "Ok", msg |-> "", rows |-> [k \in DOMAIN results |-> results[k].row]]
    ELSE [tag |-> "Panic", msg |-> results[FirstPanic(results)].msg,
          rows |-> [k \in 1..(FirstPanic(results) - 1) |-> results[k].row]]

\* The rows of a report, group after group, up to the first panic.
report_rows(kind, groups) ==
    printed_rows([k \in DOMAIN groups |->
                    IF kind = "uid" THEN user_row(groups, groups[k])
                    ELSE env_row(groups[k])])

(***************************************************************************)
(* The machines a run is started on.                                       *)
(***************************************************************************)
\* A process of the table.  Its swap slots, page-table size and descriptor
\* count are fixed by its pid: processes with an odd pid share one swap slot.
Proc(pid, uid, sid, state, pfns) ==
    [pid |-> pid, uid |-> uid, sid |-> sid, state |-> state, pfns |-> pfns,
     swap |-> IF pid % 2 = 1 THEN {<<0, 7>>, <<0, pid>>} ELSE {},
     pte |-> 4 * (pid + 1),
     fds |-> pid + 3]

\* The run's own process, which all_processes() lists as well.
SelfProc == Proc(MyPid, 0, None, "ok", {})

\* Owner, state and resident frames of a process: a process whose lookups
\* all succeed holds any set of frames; the frames of another one are never
\* read, or it has none (a kernel thread).
ProcChoices ==
    {[uid |-> u, state |-> "ok", pfns |-> f] : u \in Uids, f \in SUBSET Frames}
    \cup {[uid |-> u, state |-> st, pfns |-> {}] : u \in Uids, st \in ProcStates \ {"ok"}}

\* A process table: the pids are 1..n and the variable is set for odd pids.
ProcTable(n, c) ==
    [i \in 1..n |-> Proc(i, c[i].uid, IF i % 2 = 1 THEN Some("A") ELSE None,
                         c[i].state, c[i].pfns)]

NoShm == [ok |-> TRUE, segs |-> <<>>]

\* The segments: their ids are 1..n and segment i is backed by frame i.
ShmTable(n, c) ==
    [ok |-> TRUE,
     segs |-> [i \in 1..n |-> [shmid |-> i, size |-> c[i].size,
                               readable |-> c[i].readable, pfns |-> {i}]]]

\* The candidates: candidate i is process 1000+i of instance i.
SmonList(n, c) == [i \in 1..n |-> [pid |-> 1000 + i, uid |-> c[i], sid |-> i]]

NoSplitter == [kind |-> "none", groups |-> EmptyMap]

\* The state of the program when main is entered.
InitProgram ==
    /\ pc = "start"
    /\ panic = "none"
    /\ out = <<>>
    /\ idx = 1
    /\ smon_info = [tag |-> "none"]
    /\ instances = <<>>
    /\ probe = NoProbe
    /\ processes = <<>>
    /\ splitter = NoSplitter
    /\ rows1 = <<>>
    /\ rows2 = <<>>
    /\ input = <<>>
    /\ calls = 0

\* An invocation that never reads the machine: the probe, or a run that is
\* not superuser.
InitNoRead ==
    /\ args \in {"none", "get_sga"}
    /\ euid \in {0, 1000}
    /\ ~(args = "none" /\ euid = 0)
    /\ smons = <<>> /\ shm = NoShm /\ procs = <<>> /\ page_size = 4096

\* Superuser runs on machines that vary in the candidates and the segments.
InitDiscovery ==
    /\ args = "none" /\ euid = 0
    /\ \E n \in 0..MaxSmons : \E c \in [1..n -> SmonUids] : smons = SmonList(n, c)
    /\ \E n \in 0..MaxShm : \E c \in [1..n -> [size : SgaSizes, readable : BOOLEAN]] :
          shm \in {ShmTable(n, c), [ok |-> FALSE, segs |-> <<>>]}
    /\ procs = <<>> /\ page_size = 4096

\* Superuser runs on machines that vary in the process table and page size.
InitPipeline ==
    /\ args = "none" /\ euid = 0
    /\ smons = <<>> /\ shm = NoShm
    /\ \E n \in 0..MaxProcs : \E c \in [1..n -> ProcChoices] : procs = ProcTable(n, c)
    /\ page_size \in PageSizes

Init == InitProgram /\ (InitNoRead \/ InitDiscovery \/ InitPipeline)

(***************************************************************************)
(* main().                                                                 *)
(***************************************************************************)
machine == <<args, euid, smons, shm, procs, page_size>>
api == <<input, calls>>

Abort(msg) == pc' = "aborted" /\ panic' = msg

\* Line 313: the first argument selects the probe.
Dispatch ==
    /\ pc = "start"
    /\ IF args = "get_sga"
       THEN probe' = NewProbe("top", euid) /\ pc' = "probe"
       ELSE probe' = probe /\ pc' = "assert_root"
    /\ UNCHANGED <<machine, api, panic, out, idx, smon_info, instances,
                   processes, splitter, rows1, rows2>>

\* The probe without the assertion of line 314.
ProbeAssert_unchecked ==
    /\ probe.who # "none" /\ probe.pc = "assert"
    /\ probe' = [probe EXCEPT !.pc = "query"]
    /\ UNCHANGED <<machine, api, pc, panic, out, idx, smon_info, instances,
                   processes, splitter, rows1, rows2>>

\* Line 314, in the top-level probe or in a child: assert_ne!(uid, 0).
ProbeAssert ==
    /\ probe.who # "none" /\ probe.pc = "assert"
    /\ probe' = [probe EXCEPT !.pc = IF probe.uid # 0 THEN "query" ELSE "aborted"]
    /\ IF probe.uid = 0 /\ probe.who = "top"
       THEN Abort("assert_ne uid")
       ELSE UNCHANGED <<pc, panic>>
    /\ UNCHANGED <<machine, api, out, idx, smon_info, instances,
                   processes, splitter, rows1, rows2>>

\* Line 318: the size query, which fails or returns a size.
ProbeQuery ==
    /\ probe.who # "none" /\ probe.pc = "query"
    /\ \E o \in QueryOutcomes :
          /\ probe' = [probe EXCEPT
                         !.queried = TRUE,
                         !.pc = IF o.ok THEN "print" ELSE "aborted",
                         !.sga_size = o.size,
                         !.stdout = IF o.noise = "none" THEN <<>> ELSE <<Noise(o.noise)>>]
          /\ IF ~o.ok /\ probe.who = "top"
             THEN Abort("get_sga_size")
             ELSE UNCHANGED <<pc, panic>>
    /\ UNCHANGED <<machine, api, out, idx, smon_info, instances,
                   processes, splitter, rows1, rows2>>

\* Lines 322-323: println!("{sga_size}") and exit(0).
ProbePrint ==
    /\ probe.who # "none" /\ probe.pc = "print"
    /\ probe' = [probe EXCEPT !.pc = "exit0",
                              !.stdout = Append(probe.stdout, IntLine(probe.sga_size))]
    /\ pc' = IF probe.who = "top" THEN "exited" ELSE pc
    /\ UNCHANGED <<machine, api, panic, out, idx, smon_info, instances,
                   processes, splitter, rows1, rows2>>

\* Line 326: assert_eq!(uid, 0); then find_smons() is iterated.
AssertRoot ==
    /\ pc = "assert_root"
    /\ IF euid = 0 THEN pc' = "discover" /\ panic' = panic
       ELSE Abort("assert_eq uid")
    /\ UNCHANGED <<machine, api, out, idx, smon_info, instances, probe,
                   processes, splitter, rows1, rows2>>

\* get_smon_info, lines 265-277: the program is executed again as the
\* candidate's owner with argument get_sga; the parent waits for its output.
Spawn ==
    /\ pc = "discover" /\ idx <= Len(smons)
    /\ \E executed \in BOOLEAN :
          IF executed
          THEN probe' = NewProbe("child", smons[idx].uid) /\ pc' = "wait" /\ panic' = panic
          ELSE probe' = probe /\ Abort("failed to execute process")
    /\ UNCHANGED <<machine, api, out, idx, smon_info, instances,
                   processes, splitter, rows1, rows2>>

\* get_smon_info, lines 279-308, and the closure of lines 333-337: the
\* result of the candidate is kept when it is Ok and dropped when it is Err.
SmonResult ==
    /\ pc = "wait" /\ probe.pc \in {"exit0", "aborted"}
    /\ LET r == get_smon_info(smons[idx], probe)
       IN  IF r.tag = "Panic"
           THEN /\ Abort(r.msg)
                /\ UNCHANGED <<idx, smon_info, instances>>
           ELSE /\ smon_info' = r
                /\ instances' = IF r.tag = "Ok" THEN Append(instances, r.info) ELSE instances
                /\ idx' = idx + 1
                /\ pc' = "discover"
                /\ panic' = panic
    /\ probe' = NoProbe
    /\ UNCHANGED <<machine, api, out, processes, splitter, rows1, rows2>>

\* Lines 340-346: the instances are printed.
PrintInstances ==
    /\ pc = "discover" /\ idx > Len(smons)
    /\ out' = out
              \o (IF instances # <<>>
                  THEN <<"Oracle instances:">> \o [i \in DOMAIN instances |-> "instance"]
                  ELSE <<>>)
              \o <<"">>
    /\ pc' = "inventory"
    /\ UNCHANGED <<machine, api, panic, idx, smon_info, instances, probe,
                   processes, splitter, rows1, rows2>>

\* Lines 348-393: the frames of every segment, then the frame flags of the
\* System RAM ranges; each source may fail, which is fatal.
Inventory ==
    /\ pc = "inventory"
    /\ \E source \in {"ok", "Can't open /proc/kpageflags", "Can't read iomem",
                      "Can't read /proc/kpagecount"} :
          IF ~shm.ok THEN Abort("Can't read /dev/sysvipc/shm")
          ELSE IF \E i \in DOMAIN shm.segs : shm2pfns(shm.segs[i]).tag = "Err"
               THEN Abort("shm2pfns")
          ELSE IF source # "ok" THEN Abort(source)
          ELSE pc' = "all_processes" /\ panic' = panic
    /\ UNCHANGED <<machine, api, out, idx, smon_info, instances, probe,
                   processes, splitter, rows1, rows2>>

\* Lines 400-404: every process but the run's own.
AllProcesses ==
    /\ pc = "all_processes"
    /\ \E listed \in BOOLEAN :
          IF listed
          THEN /\ processes' = SelectSeq(Append(procs, SelfProc), LAMBDA p : p.pid # MyPid)
               /\ pc' = "split_uid" /\ panic' = panic
          ELSE processes' = processes /\ Abort("all_processes")
    /\ UNCHANGED <<machine, api, out, idx, smon_info, instances, probe,
                   splitter, rows1, rows2>>

\* The body of a split call in main: the list is moved into the strategy.
MainSplit(kind, next) ==
    LET r == split([kind |-> kind, groups |-> EmptyMap], processes)
    IN  /\ processes' = <<>>
        /\ IF r.tag = "Panic"
           THEN splitter' = splitter /\ Abort(r.msg)
           ELSE splitter' = r.splitter /\ pc' = next /\ panic' = panic

\* Lines 408-410: the header is printed once split has returned.
SplitUid ==
    /\ pc = "split_uid"
    /\ MainSplit("uid", "report_uid")
    /\ out' = IF split([kind |-> "uid", groups |-> EmptyMap], processes).tag = "Panic"
              THEN out
              ELSE Append(out, "Processes per user:")
    /\ UNCHANGED <<machine, api, idx, smon_info, instances, probe, rows1, rows2>>

\* Lines 411-428.
ReportPerUser ==
    /\ pc = "report_uid"
    /\ \E order \in GroupOrders(splitter) :
          LET groups == iter_groups(splitter, order)
              r == report_rows("uid", groups)
          IN  /\ rows1' = r.rows
              /\ IF r.tag = "Panic"
                 THEN out' = out \o [i \in DOMAIN r.rows |-> "user row"] /\ Abort(r.msg)
                 ELSE /\ out' = out \o [i \in DOMAIN r.rows |-> "user row"] \o <<"">>
                      /\ pc' = "collect" /\ panic' = panic
    /\ UNCHANGED <<machine, api, idx, smon_info, instances, probe,
                   processes, splitter, rows2>>

\* Line 431: the groups are flattened and the strategy is consumed.
CollectProcesses ==
    /\ pc = "collect"
    /\ \E order \in GroupOrders(splitter) :
          processes' = collect_processes(splitter, order)
    /\ splitter' = NoSplitter
    /\ pc' = "split_env"
    /\ UNCHANGED <<machine, api, panic, out, idx, smon_info, instances, probe,
                   rows1, rows2>>

\* Lines 433-435: the header is printed before split is called.
SplitEnv ==
    /\ pc = "split_env"
    /\ MainSplit("env", "report_env")
    /\ out' = Append(out, "Processes per env variable 'ORACLE_SID'")
    /\ UNCHANGED <<machine, api, idx, smon_info, instances, probe, rows1, rows2>>

\* Lines 436-444.
ReportEnv ==
    /\ pc = "report_env"
    /\ \E order \in GroupOrders(splitter) :
          LET groups == iter_groups(splitter, order)
              r == report_rows("env", groups)
          IN  /\ rows2' = r.rows
              /\ IF r.tag = "Panic"
                 THEN out' = out \o [i \in DOMAIN r.rows |-> "env row"] /\ Abort(r.msg)
                 ELSE /\ out' = out \o [i \in DOMAIN r.rows |-> "env row"] \o <<"">>
                      /\ pc' = "end" /\ panic' = panic
    /\ UNCHANGED <<machine, api, idx, smon_info, instances, probe,
                   processes, splitter, rows1>>

\* Line 446: unreachable!() is the last statement of main.
Unreachable ==
    /\ pc = "end"
    /\ Abort("entered unreachable code")
    /\ UNCHANGED <<machine, api, out, idx, smon_info, instances, probe,
                   processes, splitter, rows1, rows2>>

Next ==
    \/ Dispatch
    \/ ProbeAssert
    \/ ProbeQuery
    \/ ProbePrint
    \/ AssertRoot
    \/ Spawn
    \/ SmonResult
    \/ PrintInstances
    \/ Inventory
    \/ AllProcesses
    \/ SplitUid
    \/ ReportPerUser
    \/ CollectProcesses
    \/ SplitEnv
    \/ ReportEnv
    \/ Unreachable

Spec == Init /\ [][Next]_vars

(***************************************************************************)
(* The ProcessSplitter trait used on its own: a strategy is created, split *)
(* is called on it with one list after another, and collect_processes      *)
(* consumes it.  Every lookup on the processes of these lists succeeds.    *)
(***************************************************************************)
\* A list given to the call number k + 1: its pids are 10(k+1)+i.
ApiList(k, n, c) ==
    [i \in 1..n |-> Proc(10 * (k + 1) + i, c[i].uid, c[i].sid, "ok", {})]

\* ProcessSplitterByUid::new() or ProcessSplitterByEnvVariable::new(var).
InitSplit ==
    /\ args = "none" /\ euid = 0
    /\ smons = <<>> /\ shm = NoShm /\ procs = <<>> /\ page_size = 4096
    /\ pc = "api"
    /\ panic = "none"
    /\ out = <<>>
    /\ idx = 1
    /\ smon_info = [tag |-> "none"]
    /\ instances = <<>>
    /\ probe = NoProbe
    /\ processes = <<>>
    /\ splitter \in {[kind |-> k, groups |-> EmptyMap] : k \in {"uid", "env"}}
    /\ rows1 = <<>>
    /\ rows2 = <<>>
    /\ input = <<>>
    /\ calls = 0

\* fn split(&mut self, processes: Vec<Process>)
ApiSplit ==
    /\ pc = "api" /\ splitter.kind # "none" /\ calls < MaxCalls
    /\ \E n \in 0..MaxProcs : \E c \in [1..n -> [uid : Uids, sid : SidValues]] :
          /\ splitter' = split(splitter, ApiList(calls, n, c)).splitter
          /\ input' = ApiList(calls, n, c)
    /\ calls' = calls + 1
    /\ UNCHANGED <<machine, pc, panic, out, idx, smon_info, instances, probe,
                   processes, rows1, rows2>>

\* fn collect_processes(self) -> Vec<Process>
ApiCollect ==
    /\ pc = "api" /\ splitter.kind # "none"
    /\ \E order \in GroupOrders(splitter) :
          processes' = collect_processes(splitter, order)
    /\ splitter' = NoSplitter
    /\ UNCHANGED <<machine, api, pc, panic, out, idx, smon_info, instances, probe,
                   rows1, rows2>>

NextSplit == ApiSplit \/ ApiCollect

SpecSplit == InitSplit /\ [][NextSplit]_vars

(***************************************************************************)
(* Properties.                                                             *)
(***************************************************************************)
Count(p, list) == Cardinality({i \in DOMAIN list : list[i] = p})

IsPermutation(a, b) ==
    /\ Len(a) = Len(b)
    /\ \A p \in Range(a) \cup Range(b) : Count(p, a) = Count(p, b)

\* The members of all groups a strategy holds, group after group.
Members(s) == collect_processes(s, CHOOSE o \in GroupOrders(s) : TRUE)

\* The key a strategy of kind `kind` files a process under.
KeyOf(kind, p) == IF kind = "uid" THEN p.uid ELSE p.sid

\* C1: after split on a fresh strategy of either kind, every process of the
\* input is a member of exactly one group, once, filed under its own key
\* (the absent variable being a key), and the groups hold nothing else;
\* collect_processes then returns a permutation of the input.
C1_SplitCollectIsPermutation ==
    (pc = "api" /\ calls = 1) =>
        IF splitter.kind # "none"
        THEN /\ IsPermutation(Members(splitter), input)
             /\ \A k \in DOMAIN splitter.groups :
                   \A i \in DOMAIN splitter.groups[k].processes :
                      KeyOf(splitter.kind, splitter.groups[k].processes[i]) = k
        ELSE IsPermutation(processes, input)

\* A list of two processes, the first with the variable set and the second
\* without it, has been split and collected, and came back in another order.
C1_Witness ==
    /\ pc = "api" /\ calls = 1 /\ splitter.kind = "none"
    /\ Len(input) = 2
    /\ input[1].sid # None /\ input[2].sid = None
    /\ processes = <<input[2], input[1]>>

\* C2: after a second split on the same strategy the groups are exactly the
\* partition of the second list: no group and no member of the first call
\* remains.
C2_SecondSplitReplaces ==
    (pc = "api" /\ calls >= 2 /\ splitter.kind # "none") =>
        /\ IsPermutation(Members(splitter), input)
        /\ DOMAIN splitter.groups = {KeyOf(splitter.kind, input[i]) : i \in DOMAIN input}

\* The groups of the per-user report, in the order of the report.
UidGroups == iter_groups(splitter, Ascending(DOMAIN splitter.groups))

\* resident_frames of a group, and the union over the groups of another name.
FramesOf(g) == processes_group_info(g).pfns
OthersOf(g, groups) ==
    UNION {FramesOf(groups[j]) : j \in {j \in DOMAIN groups : groups[j].name # g.name}}

\* C3 as stated: in the per-user report the figures of a group G are
\* |G.resident_frames| x page_size and |G.resident_frames minus U| x page_size.
C3_FiguresInBytes ==
    pc = "collect" =>
        /\ Len(rows1) = Len(UidGroups)
        /\ \A k \in DOMAIN rows1 :
              LET G == FramesOf(UidGroups[k])
                  U == OthersOf(UidGroups[k], UidGroups)
              IN  /\ rows1[k].name = UidGroups[k].name
                  /\ rows1[k].rss = Cardinality(G) * page_size
                  /\ rows1[k].uss = Cardinality(G \ U) * page_size

\* C3 amended: the figures are those byte counts in whole MiB, that is
\* divided by 1024 and by 1024 again, rounding down.
C3_FiguresInMiB ==
    pc = "collect" =>
        /\ Len(rows1) = Len(UidGroups)
        /\ \A k \in DOMAIN rows1 :
              LET G == FramesOf(UidGroups[k])
                  U == OthersOf(UidGroups[k], UidGroups)
              IN  /\ rows1[k].name = UidGroups[k].name
                  /\ rows1[k].pfns = Cardinality(G)
                  /\ rows1[k].rss = (Cardinality(G) * page_size) \div 1048576
                  /\ rows1[k].uss = (Cardinality(G \ U) * page_size) \div 1048576

\* Two accounts were reported; one holds a frame the other holds too and a
\* frame of its own, and its two figures differ.
C3_Witness ==
    /\ pc = "collect" /\ Len(rows1) = 2
    /\ \E k \in DOMAIN rows1 :
          /\ rows1[k].uss > 0 /\ rows1[k].rss > rows1[k].uss
          /\ FramesOf(UidGroups[k]) \cap OthersOf(UidGroups[k], UidGroups) # {}

\* The child of the current candidate reported a size no segment has.
NoMatchingSegment ==
    /\ pc = "wait" /\ probe.pc = "exit0"
    /\ from_utf8(probe.stdout) /\ parse(probe.stdout).tag = "Ok"
    /\ shm.ok
    /\ \A i \in DOMAIN shm.segs : shm.segs[i].size # parse(probe.stdout).val

\* C4: when no segment has the size the child reported, only that instance
\* is dropped: the parent does not abort, records nothing and goes on with
\* the next candidate.
C4_NoMatchIsSkipped ==
    [][NoMatchingSegment =>
         (pc' = "discover" /\ idx' = idx + 1 /\ instances' = instances)]_vars

\* The child of the current candidate exited with a failure, or wrote bytes
\* that are not text.
ChildFailed ==
    /\ pc = "wait"
    /\ \/ probe.pc = "aborted"
       \/ probe.pc = "exit0" /\ ~from_utf8(probe.stdout)

\* The instances recorded are candidates already probed, in candidate order,
\* each at most once, and each is a whole record: its segment has its size.
InstancesInOrder ==
    /\ \A i \in DOMAIN instances :
          \E j \in 1..(idx - 1) :
             /\ j <= Len(smons) /\ instances[i].pid = smons[j].pid
             /\ instances[i].sid = smons[j].sid
    /\ \A i, j \in DOMAIN instances : i < j => instances[i].pid < instances[j].pid
    /\ \A i \in DOMAIN instances :
          \E m \in DOMAIN shm.segs :
             /\ shm.segs[m].shmid = instances[i].sga_shm
             /\ shm.segs[m].size = instances[i].sga_size

\* C5: when the child fails or its output is undecodable, the parent records
\* nothing for the candidate, does not abort and goes on with the next
\* candidate (and, after the last one, with the reports); the collection
\* holds only instances whose discovery succeeded, in candidate order.
C5_ChildFailureIsSkipped ==
    [][/\ ChildFailed =>
            /\ instances' = instances
            /\ idx' = idx + 1
            /\ pc' = "discover" /\ panic' = "none"
            /\ smon_info'.tag = "Err"
       /\ InstancesInOrder'
       /\ (pc = "discover" /\ idx > Len(smons)) => pc' = "inventory"]_vars

\* The second candidate wrote undecodable output and was dropped; the first
\* one is recorded and the run has gone on to the reports.
C5_Witness ==
    /\ pc = "inventory"
    /\ Len(smons) = 2 /\ Len(instances) = 1
    /\ instances[1].pid = smons[1].pid
    /\ smon_info.tag = "Err" /\ smon_info.msg = "Can't read output"

\* C6: a lookup that fails for one member process during aggregation (its
\* command line, status, descriptor count or mappings) only skips that
\* process: the run does not abort on it.
C6_LookupFailureIsSkipped ==
    pc = "aborted" => panic \notin {"cmdline", "status", "fd_count", "maps"}

\* Number of lines println! wrote to the standard output of a probe.
IntLines(stdout) == Cardinality({i \in DOMAIN stdout : stdout[i].kind = "int"})

\* C7: a probe that is superuser never runs the size query and prints
\* nothing; a probe that exits with 0 is not superuser and has printed one
\* integer; a normal run that is not superuser spawns no child and prints
\* nothing; so a child only exists under a superuser parent.
C7_PrivilegeCheckedFirst ==
    /\ (probe.who # "none" /\ probe.uid = 0) =>
          (~probe.queried /\ probe.stdout = <<>> /\ probe.pc \in {"assert", "aborted"})
    /\ (probe.who # "none" /\ probe.pc = "exit0") =>
          (probe.uid # 0 /\ probe.queried /\ IntLines(probe.stdout) = 1)
    /\ (args = "none" /\ euid # 0) =>
          /\ probe.who = "none" /\ out = <<>> /\ idx = 1 /\ instances = <<>>
          /\ pc \in {"start", "assert_root", "aborted"}
    /\ probe.who = "child" => (args = "none" /\ euid = 0)
    /\ (args = "get_sga" /\ pc = "exited") => (euid # 0 /\ probe.pc = "exit0")

\* A probe started by a superuser has aborted.
C7_Witness ==
    /\ args = "get_sga" /\ euid = 0
    /\ pc = "aborted" /\ probe.pc = "aborted" /\ ~probe.queried

\* C8: frame number 0 is never a frame: it adds nothing to the resident
\* bytes of a process, and it counts neither in a group's resident figure
\* nor against its unique figure.
C8_FrameZeroNeverCounts ==
    /\ \A i \in DOMAIN procs :
          procs[i].state = "ok" =>
             get_info(procs[i], get_memory_maps_for_process(procs[i])).info.rss
               = page_size * Cardinality(procs[i].pfns \ {0})
    /\ pc = "collect" =>
          \A k \in DOMAIN rows1 :
             LET G == FramesOf(UidGroups[k]) \ {0}
                 U == OthersOf(UidGroups[k], UidGroups) \ {0}
             IN  /\ rows1[k].pfns = Cardinality(G)
                 /\ rows1[k].rss = MiB(Cardinality(G))
                 /\ rows1[k].uss = MiB(Cardinality(G \ U))

\* The panics that report a violated precondition or a failed call.
FailurePanics ==
    {"assert_ne uid", "assert_eq uid", "get_sga_size", "failed to execute process",
     "parse", "shm for sga not found", "shm2pfns", "Can't read /dev/sysvipc/shm",
     "Can't open /proc/kpageflags", "Can't read iomem", "Can't read /proc/kpagecount",
     "all_processes", "uid", "environ", "cmdline", "status", "fd_count"}

\* C9: a normal run under superuser in which no precondition is violated and
\* no call fails does not abort: it runs the reports and exits normally.
C9_CleanRunExitsNormally ==
    (args = "none" /\ euid = 0 /\ pc = "aborted") => panic \in FailurePanics

\* The members of a group that processes_group_info folds: those whose
\* mappings resolve and whose command line is not empty.
Survivors(g) == SelectSeq(g.processes, LAMBDA p : p.state \notin {"gone", "kernel"})

PairwiseDisjoint(ps) ==
    \A i, j \in DOMAIN ps : i # j => ps[i].pfns \cap ps[j].pfns = {}

FoldsSurvivors(info, g) ==
    LET surv == Survivors(g)
    IN  /\ info.pids = [i \in DOMAIN surv |-> surv[i].pid]
        /\ info.pfns = UNION {surv[i].pfns : i \in DOMAIN surv}
        /\ info.swap_pages = UNION {surv[i].swap : i \in DOMAIN surv}
        /\ info.pte = SeqSum([i \in DOMAIN surv |-> surv[i].pte])
        /\ info.fds = SeqSum([i \in DOMAIN surv |-> surv[i].fds])
        /\ Cardinality(info.pfns) <= SeqSum([i \in DOMAIN surv |-> Cardinality(surv[i].pfns)])
        /\ (Cardinality(info.pfns) = SeqSum([i \in DOMAIN surv |-> Cardinality(surv[i].pfns)]))
             <=> PairwiseDisjoint(surv)

\* C10: the footprint processes_group_info returned for a group, in either
\* report, folds the surviving members only: their pids in group order, the
\* unions of their frames and swap slots, the sums of their page-table sizes
\* and descriptor counts; it has as many frames as the members have in total
\* exactly when their frame sets are pairwise disjoint.
C10_GroupInfoFoldsSurvivors ==
    /\ pc = "collect" =>
          \A k \in DOMAIN rows1 : FoldsSurvivors(rows1[k].info, UidGroups[k])
    /\ pc = "end" =>
          \A k \in DOMAIN rows2 :
             \E key \in DOMAIN splitter.groups :
                /\ splitter.groups[key].name = rows2[k].name
                /\ FoldsSurvivors(rows2[k].info, splitter.groups[key])

\* A group of two members was reported of which one survived.
C10_Witness ==
    /\ pc = "collect"
    /\ \E k \in DOMAIN rows1 :
          /\ Len(UidGroups[k].processes) = 2
          /\ Len(rows1[k].info.pids) = 1
          /\ rows1[k].info.pfns # {}

====
